---- MODULE Spec2Model ----
(***************************************************************************)
(* youtube_comment_extractor.py: get_video_comments walks the paginated    *)
(* commentThreads listing of one video and, per thread, the paginated      *)
(* comments listing of its replies, flattening both into one list that     *)
(* main hands to save_comments_to_csv.                                     *)
(*                                                                         *)
(* A record of the list keeps the three fields that carry structure        *)
(* (level, parent_id, comment_id); author, comment, like_count,            *)
(* published_at and updated_at are copied verbatim from the API item and   *)
(* are left out.  The id of thread t is <<t>>, the id of its k-th reply is *)
(* <<t, k>>, the empty string '' is <<>>.  An optional key of a response   *)
(* (nextPageToken) is a sequence of length 0 or 1.                         *)
(***************************************************************************)
EXTENDS Integers, Sequences, FiniteSets, TLC

VARIABLES
    max_results,        \* args.max_comments, the max_results parameter
    video,              \* the threads the API holds for the video, in relevance order
    emptyLeft,          \* API: pages without items it may still serve
    comments,           \* the list get_video_comments accumulates
    response,           \* the last commentThreads response
    item_i,             \* position of the for loop over response['items']
    replies_response,   \* the last comments response of the current item
    pc,                 \* position of the program
    requests,           \* every request built so far, in order
    failures,           \* every execute() that raised, in order
    returned,           \* <<>>, or <<list>> once get_video_comments returned list
    save_calls,         \* the lists save_comments_to_csv was called with
    csv,                \* the CSV file: "none", "partial" or "complete"
    exit_code           \* <<>> while running, <<status>> once the process ended

vars == <<max_results, video, emptyLeft, comments, response, item_i,
          replies_response, pc, requests, failures, returned, save_calls,
          csv, exit_code>>

-----------------------------------------------------------------------------
(* Bounds of the model and constants of the program *)

MaxThreads == 3
MaxOver == 1
MaxShort == 2
MaxEmptyPages == 1
MaxExtra == 1
PageSizeCap == 100

Min(a, b) == IF a < b THEN a ELSE b
Max(a, b) == IF a < b THEN b ELSE a

-----------------------------------------------------------------------------
(* The API side: thread items and the pages served for them *)

\* A commentThreads item: has_replies is "'replies' in item", inline is
\* item['replies']['comments'] (reply numbers), totalReplyCount is
\* item['snippet']['totalReplyCount'], reply_pages is what comments().list
\* serves for this parent, page by page.
ThreadItem(has, inl, total, pages) ==
    [has_replies |-> has, inline |-> inl, totalReplyCount |-> total,
     reply_pages |-> pages]

PlainThread       == ThreadItem(FALSE, <<>>, 0, <<>>)
CompleteThread    == ThreadItem(TRUE, <<1>>, 1, << <<1>> >>)
ScenarioAThread   == ThreadItem(TRUE, <<1>>, 3, << <<2, 3>> >>)
OverlapThread     == ThreadItem(TRUE, <<1, 2>>, 4, << <<1, 3>>, <<2, 4>> >>)
NoSnapshotThread  == ThreadItem(FALSE, <<>>, 2, << <<1, 2>> >>)

ThreadShapes ==
    {PlainThread, CompleteThread, ScenarioAThread, OverlapThread,
     NoSnapshotThread}

SmallVideos == UNION {[1..n -> ThreadShapes] : n \in 0..MaxThreads}
LargeSizes  == PageSizeCap..(PageSizeCap + MaxOver)
LargeVideos == {[t \in 1..n |-> PlainThread] : n \in LargeSizes}

NoToken == <<>>
NoResponse == [items |-> <<>>, nextPageToken |-> NoToken]

\* commentThreads().list(maxResults=size, pageToken=<<offset>>).execute():
\* the pages the API may answer with.  It serves at most min(size, 100) of
\* the threads after offset; a page may come up to MaxShort items short, and,
\* while emptyLeft lasts, empty although threads remain, or carrying a token
\* although none remain.
ThreadPageResponses(offset, size) ==
    LET remaining == Len(video) - offset
        full  == Max(0, Min(Min(size, PageSizeCap), remaining))
        counts == {k \in 0..full :
                     /\ k >= full - MaxShort
                     /\ (k = 0 /\ full > 0) => emptyLeft > 0}
        page(k) == [t \in 1..k |-> offset + t]
    IN  UNION {
          IF offset + k < Len(video)
          THEN {[items |-> page(k), nextPageToken |-> <<offset + k>>,
                 cost |-> IF k = 0 /\ full > 0 THEN 1 ELSE 0]}
          ELSE {[items |-> page(k), nextPageToken |-> NoToken, cost |-> 0]}
               \cup (IF emptyLeft > 0
                     THEN {[items |-> page(k), nextPageToken |-> <<offset + k>>,
                            cost |-> 1]}
                     ELSE {})
          : k \in counts}

\* comments().list(parentId=<<t>>, maxResults=100[, pageToken=<<p>>]).execute():
\* page p of the replies of thread t.
ReplyPageResponse(t, p) ==
    LET pages == video[t].reply_pages
    IN  [items |-> pages[p],
         nextPageToken |-> IF p < Len(pages) THEN <<p + 1>> ELSE NoToken]

\* What execute() may do: answer, raise HttpError, raise another exception.
Outcomes == {"ok", "HttpError", "Exception"}

-----------------------------------------------------------------------------
(* The records *)

TopLevelId(t) == <<t>>
ReplyId(t, k) == <<t, k>>

TopRecord(t) ==
    [level |-> 0, parent_id |-> <<>>, comment_id |-> TopLevelId(t)]
ReplyRecordOwnParent(t, k) ==
    [level |-> 1, parent_id |-> ReplyId(t, k), comment_id |-> ReplyId(t, k)]
ReplyRecord(t, k) ==
    [level |-> 1, parent_id |-> TopLevelId(t), comment_id |-> ReplyId(t, k)]

RECURSIVE ReplyRecords(_, _)
ReplyRecords(t, ks) ==
    IF ks = <<>> THEN <<>>
    ELSE <<ReplyRecord(t, Head(ks))>> \o ReplyRecords(t, Tail(ks))

RECURSIVE SkipExisting(_, _)
SkipExisting(ks, existing) ==
    IF ks = <<>> THEN <<>>
    ELSE (IF Head(ks) \in existing THEN <<>> ELSE <<Head(ks)>>)
         \o SkipExisting(Tail(ks), existing)

Range(s) == {s[i] : i \in DOMAIN s}

Level0Count(cs) == Cardinality({i \in DOMAIN cs : cs[i].level = 0})

-----------------------------------------------------------------------------
(* The expressions get_video_comments decides with *)

\* maxResults of the first commentThreads request
FirstPageSize == max_results

\* maxResults of every later commentThreads request
NextPageSizeWholePage(count) == PageSizeCap
NextPageSize(count) == Min(max_results - count, PageSizeCap)

\* maxResults of every comments request
ReplyPageSize == PageSizeCap

\* the condition of the while loop over thread pages
MoreThreadPagesTokenOnly == response.nextPageToken # NoToken
MoreThreadPages ==
    /\ response.nextPageToken # NoToken
    /\ Level0Count(comments) < max_results

\* "if total_reply_count > len(item['replies']['comments'])"
NeedsReplyFetchAlways(item) == TRUE
NeedsReplyFetchWithinBound(item) ==
    /\ item.totalReplyCount > Len(item.inline)
    /\ Len(comments) < max_results
NeedsReplyFetch(item) == item.totalReplyCount > Len(item.inline)

\* the replies appended from the first reply page: those whose id is not in
\* existing_reply_ids
FirstPageReplies(item, rr) == SkipExisting(rr.items, Range(item.inline))

\* the replies appended from every later reply page: all of them
NextPageReplies(item, rr) == rr.items

\* "except HttpError as reply_error" of the try around the reply requests
ReplyErrorNeverCaught(err) == FALSE
ReplyErrorIsCaught(err) == err = "HttpError"

\* "if not comments" of main
IsEmptyResult(cs) == cs = <<>>

ThreadRequest(size, token) ==
    [api |-> "commentThreads", maxResults |-> size, pageToken |-> token,
     parentId |-> <<>>]

ReplyRequest(t, token) ==
    [api |-> "comments", maxResults |-> ReplyPageSize, pageToken |-> token,
     parentId |-> TopLevelId(t)]

-----------------------------------------------------------------------------
(* The program *)

Init ==
    /\ \/ video \in SmallVideos /\ max_results \in 1..MaxThreads
       \/ video \in SmallVideos /\ Len(video) <= 1 /\ max_results \in LargeSizes
       \/ video \in LargeVideos /\ max_results \in LargeSizes
    /\ emptyLeft = MaxEmptyPages
    /\ comments = <<>>
    /\ response = NoResponse
    /\ item_i = 1
    /\ replies_response = NoResponse
    /\ pc = "start"
    /\ requests = <<>>
    /\ failures = <<>>
    /\ returned = <<>>
    /\ save_calls = <<>>
    /\ csv = "none"
    /\ exit_code = <<>>

\* the thread the for loop is at
CurrentThread == response.items[item_i]
CurrentItem == video[CurrentThread]

\* "except HttpError as e" / "except Exception as e" of get_video_comments:
\* print, sys.exit(1)
FatalReturnsPartial ==
    /\ pc' = "main"
    /\ returned' = <<comments>>
    /\ UNCHANGED <<comments, response, item_i, replies_response, exit_code,
                   save_calls, csv, emptyLeft>>
FatalRetries ==
    /\ pc' = pc
    /\ UNCHANGED <<comments, response, item_i, replies_response, returned,
                   save_calls, csv, emptyLeft, exit_code>>
FatalExit ==
    /\ pc' = "exit"
    /\ exit_code' = <<1>>
    /\ UNCHANGED <<comments, response, item_i, replies_response, returned,
                   save_calls, csv, emptyLeft>>

\* the for loop moves to the next item of the page, or ends
AdvanceItem ==
    /\ item_i' = item_i + 1
    /\ pc' = IF item_i + 1 > Len(response.items) THEN "page_done" ELSE "top"

\* a commentThreads response arrived: the for loop starts over it
StartPage(r) ==
    /\ response' = [items |-> r.items, nextPageToken |-> r.nextPageToken]
    /\ emptyLeft' = emptyLeft - r.cost
    /\ item_i' = 1
    /\ pc' = IF r.items = <<>> THEN "page_done" ELSE "top"

FetchFirstThreadPage ==
    /\ pc = "start"
    /\ requests' = Append(requests, ThreadRequest(FirstPageSize, NoToken))
    /\ UNCHANGED <<max_results, video>>
    /\ \E o \in Outcomes :
        IF o = "ok"
        THEN /\ \E r \in ThreadPageResponses(0, FirstPageSize) : StartPage(r)
             /\ UNCHANGED <<comments, replies_response, failures, returned,
                            save_calls, csv, exit_code>>
        ELSE /\ failures' = Append(failures,
                    [api |-> "commentThreads", parentId |-> <<>>,
                     page |-> 1, error |-> o])
             /\ FatalExit

\* the same, the level-0 record left out once max_results of them are there
EmitTopLevelWithinBound ==
    /\ pc = "top"
    /\ IF Level0Count(comments) < max_results
       THEN /\ comments' = Append(comments, TopRecord(CurrentThread))
            /\ IF CurrentItem.has_replies
               THEN pc' = "inline" /\ item_i' = item_i
               ELSE AdvanceItem
       ELSE comments' = comments /\ AdvanceItem
    /\ UNCHANGED <<max_results, video, emptyLeft, response, replies_response,
                   requests, failures, returned, save_calls, csv, exit_code>>

EmitTopLevel ==
    /\ pc = "top"
    /\ comments' = Append(comments, TopRecord(CurrentThread))
    /\ IF CurrentItem.has_replies
       THEN pc' = "inline" /\ item_i' = item_i
       ELSE AdvanceItem
    /\ UNCHANGED <<max_results, video, emptyLeft, response, replies_response,
                   requests, failures, returned, save_calls, csv, exit_code>>

EmitInlineReplies ==
    /\ pc = "inline"
    /\ comments' = comments \o ReplyRecords(CurrentThread, CurrentItem.inline)
    /\ IF NeedsReplyFetch(CurrentItem)
       THEN pc' = "reply_first" /\ item_i' = item_i
       ELSE AdvanceItem
    /\ UNCHANGED <<max_results, video, emptyLeft, response, replies_response,
                   requests, failures, returned, save_calls, csv, exit_code>>

\* as ReplyFetch, but a caught failure drops the records the earlier pages of
\* this parent appended
ReplyFetchDiscarding(p, token) ==
    /\ requests' = Append(requests, ReplyRequest(CurrentThread, token))
    /\ UNCHANGED <<max_results, video>>
    /\ \E o \in Outcomes :
        IF o = "ok"
        THEN LET rr == ReplyPageResponse(CurrentThread, p)
             IN  /\ replies_response' = rr
                 /\ comments' = comments \o
                        ReplyRecords(CurrentThread,
                            IF token = NoToken
                            THEN FirstPageReplies(CurrentItem, rr)
                            ELSE NextPageReplies(CurrentItem, rr))
                 /\ IF rr.nextPageToken # NoToken
                    THEN pc' = "reply_next" /\ item_i' = item_i
                    ELSE AdvanceItem
                 /\ UNCHANGED <<emptyLeft, response, failures, returned,
                                save_calls, csv, exit_code>>
        ELSE /\ failures' = Append(failures,
                    [api |-> "comments", parentId |-> TopLevelId(CurrentThread),
                     page |-> p, error |-> o])
             /\ IF ReplyErrorIsCaught(o)
                THEN /\ AdvanceItem
                     /\ comments' = SelectSeq(comments, LAMBDA r :
                            \/ r.parent_id # TopLevelId(CurrentThread)
                            \/ r.comment_id \in
                                 {ReplyId(CurrentThread, k) :
                                     k \in Range(CurrentItem.inline)})
                     /\ UNCHANGED <<emptyLeft, response,
                                    replies_response, returned, save_calls,
                                    csv, exit_code>>
                ELSE FatalExit

\* a comments request for page p of the current item was built and executed:
\* without pageToken for the first page, with the last token for a later one
ReplyFetch(p, token) ==
    /\ requests' = Append(requests, ReplyRequest(CurrentThread, token))
    /\ UNCHANGED <<max_results, video>>
    /\ \E o \in Outcomes :
        IF o = "ok"
        THEN LET rr == ReplyPageResponse(CurrentThread, p)
             IN  /\ replies_response' = rr
                 /\ comments' = comments \o
                        ReplyRecords(CurrentThread,
                            IF token = NoToken
                            THEN FirstPageReplies(CurrentItem, rr)
                            ELSE NextPageReplies(CurrentItem, rr))
                 /\ IF rr.nextPageToken # NoToken
                    THEN pc' = "reply_next" /\ item_i' = item_i
                    ELSE AdvanceItem
                 /\ UNCHANGED <<emptyLeft, response, failures, returned,
                                save_calls, csv, exit_code>>
        ELSE /\ failures' = Append(failures,
                    [api |-> "comments", parentId |-> TopLevelId(CurrentThread),
                     page |-> p, error |-> o])
             /\ IF ReplyErrorIsCaught(o)
                THEN /\ AdvanceItem
                     /\ UNCHANGED <<comments, emptyLeft, response,
                                    replies_response, returned, save_calls,
                                    csv, exit_code>>
                ELSE FatalExit

FetchFirstReplyPage ==
    /\ pc = "reply_first"
    /\ ReplyFetch(1, NoToken)

FetchNextReplyPage ==
    /\ pc = "reply_next"
    /\ ReplyFetch(replies_response.nextPageToken[1],
                  replies_response.nextPageToken)

FetchNextThreadPage ==
    /\ pc = "page_done"
    /\ MoreThreadPages
    /\ LET size == NextPageSize(Level0Count(comments))
           token == response.nextPageToken
       IN  /\ requests' = Append(requests, ThreadRequest(size, token))
           /\ UNCHANGED <<max_results, video>>
           /\ \E o \in Outcomes :
                IF o = "ok"
                THEN /\ \E r \in ThreadPageResponses(token[1], size) :
                            StartPage(r)
                     /\ UNCHANGED <<comments, replies_response, failures,
                                    returned, save_calls, csv, exit_code>>
                ELSE /\ failures' = Append(failures,
                            [api |-> "commentThreads", parentId |-> <<>>,
                             page |-> token[1], error |-> o])
                     /\ FatalExit

ReturnComments ==
    /\ pc = "page_done"
    /\ ~MoreThreadPages
    /\ returned' = <<comments>>
    /\ pc' = "main"
    /\ UNCHANGED <<max_results, video, emptyLeft, comments, response, item_i,
                   replies_response, requests, failures, save_calls, csv,
                   exit_code>>

MainNoComments ==
    /\ pc = "main"
    /\ IsEmptyResult(returned[1])
    /\ pc' = "exit"
    /\ exit_code' = <<1>>
    /\ UNCHANGED <<max_results, video, emptyLeft, comments, response, item_i,
                   replies_response, requests, failures, returned, save_calls,
                   csv>>

\* main calls save_comments_to_csv, which writes the header and one row per
\* comment ("complete"); open() may raise (no file) and so may a writerow()
\* (a file without all the rows, "partial"): both end the process with status 1
SaveCommentsToCsv ==
    /\ pc = "main"
    /\ ~IsEmptyResult(returned[1])
    /\ save_calls' = Append(save_calls, returned[1])
    /\ pc' = "exit"
    /\ \/ csv' = "complete" /\ exit_code' = <<0>>
       \/ csv' = "none" /\ exit_code' = <<1>>
       \/ csv' = "partial" /\ exit_code' = <<1>>
    /\ UNCHANGED <<max_results, video, emptyLeft, comments, response, item_i,
                   replies_response, requests, failures, returned>>

Next ==
    \/ FetchFirstThreadPage
    \/ EmitTopLevel
    \/ EmitInlineReplies
    \/ FetchFirstReplyPage
    \/ FetchNextReplyPage
    \/ FetchNextThreadPage
    \/ ReturnComments
    \/ MainNoComments
    \/ SaveCommentsToCsv

Spec == Init /\ [][Next]_vars

-----------------------------------------------------------------------------
(* The program against an API that may serve more than it was asked for *)

\* commentThreads().list(maxResults=size, pageToken=<<offset>>).execute()
\* answering with up to MaxExtra items more than size
OverservedPages(offset, size) ==
    LET remaining == Len(video) - offset
        asked == Max(0, size)
    IN  {[items |-> [t \in 1..k |-> offset + t],
          nextPageToken |-> IF offset + k < Len(video)
                            THEN <<offset + k>> ELSE NoToken,
          cost |-> 0]
         : k \in (asked + 1)..Min(asked + MaxExtra, remaining)}

FetchFirstThreadPageOverserved ==
    /\ pc = "start"
    /\ requests' = Append(requests, ThreadRequest(FirstPageSize, NoToken))
    /\ \E r \in OverservedPages(0, FirstPageSize) : StartPage(r)
    /\ UNCHANGED <<max_results, video, comments, replies_response, failures,
                   returned, save_calls, csv, exit_code>>

FetchNextThreadPageOverserved ==
    /\ pc = "page_done"
    /\ MoreThreadPages
    /\ LET size == NextPageSize(Level0Count(comments))
           token == response.nextPageToken
       IN  /\ requests' = Append(requests, ThreadRequest(size, token))
           /\ \E r \in OverservedPages(token[1], size) : StartPage(r)
    /\ UNCHANGED <<max_results, video, comments, replies_response, failures,
                   returned, save_calls, csv, exit_code>>

NextOverserved ==
    \/ Next
    \/ FetchFirstThreadPageOverserved
    \/ FetchNextThreadPageOverserved

SpecOverserved == Init /\ [][NextOverserved]_vars

\* get_video_comments called on its own: the steps of the function up to its
\* return or its sys.exit(1), without what main does with the result
GetVideoCommentsNext ==
    \/ FetchFirstThreadPage
    \/ EmitTopLevel
    \/ EmitInlineReplies
    \/ FetchFirstReplyPage
    \/ FetchNextReplyPage
    \/ FetchNextThreadPage
    \/ ReturnComments

SpecGetVideoComments == Init /\ [][GetVideoCommentsNext]_vars

-----------------------------------------------------------------------------
(* Vocabulary of the properties *)

ThreadFailures == {i \in DOMAIN failures : failures[i].api = "commentThreads"}
ReplyFailures  == {i \in DOMAIN failures : failures[i].api = "comments"}
HttpReplyFailures == {i \in ReplyFailures : failures[i].error = "HttpError"}

\* get_video_comments ended in sys.exit(1)
Aborted == exit_code # <<>> /\ returned = <<>>

\* the records of thread t in cs, in the order of cs
ThreadRecords(cs, t) ==
    SelectSeq(cs, LAMBDA r : r.comment_id = TopLevelId(t)
                             \/ r.parent_id = TopLevelId(t))

\* the threads the result of a run that returns has to hold
ResultThreads == 1..Min(max_results, Len(video))

RECURSIVE LaterPages(_, _)
LaterPages(pages, n) ==
    IF n <= 1 THEN <<>> ELSE LaterPages(pages, n - 1) \o pages[n]

\* what the first n reply pages of thread t add to its inline replies
PaginatedReplies(t, n) ==
    IF n = 0 THEN <<>>
    ELSE SkipExisting(video[t].reply_pages[1], Range(video[t].inline))
         \o LaterPages(video[t].reply_pages, n)

\* the records of thread t when its first n reply pages were fetched
ThreadWithPages(t, n) ==
    <<TopRecord(t)>>
    \o (IF video[t].has_replies THEN ReplyRecords(t, video[t].inline) ELSE <<>>)
    \o ReplyRecords(t, PaginatedReplies(t, n))

\* the reply pages of a thread whose replies are all collected
AllReplyPages(t) ==
    IF video[t].has_replies /\ video[t].totalReplyCount > Len(video[t].inline)
    THEN Len(video[t].reply_pages) ELSE 0

\* the reply pages of thread t that were fetched before one failed, if one did
PagesBeforeFailure(t) ==
    IF \E i \in ReplyFailures : failures[i].parentId = TopLevelId(t)
    THEN failures[CHOOSE i \in ReplyFailures :
                      failures[i].parentId = TopLevelId(t)].page - 1
    ELSE AllReplyPages(t)

-----------------------------------------------------------------------------
(* C1: when get_video_comments returns, the number of level-0 records of the
   result is min(max_results, number of threads the API holds), for every
   max_results > 0, above 100 included. *)
C1_Level0CountIsMin ==
    returned # <<>> =>
        Level0Count(returned[1]) = Min(max_results, Len(video))

C1_Witness ==
    /\ returned # <<>>
    /\ max_results > PageSizeCap
    /\ Len(video) > PageSizeCap
    /\ Len(requests) >= 2
    /\ Level0Count(returned[1]) = max_results

(* C2: once a commentThreads fetch has failed, the first or a later one,
   get_video_comments has not returned and never returns, nothing is saved,
   no file is written and the process has ended with status 1. *)
C2_ThreadFailureAborts ==
    ThreadFailures # {} =>
        /\ pc = "exit"
        /\ exit_code = <<1>>
        /\ returned = <<>>
        /\ save_calls = <<>>
        /\ csv = "none"

C2_Witness ==
    /\ ThreadFailures # {}
    /\ Len(requests) >= 2
    /\ Len(comments) >= 2
    /\ exit_code = <<1>>

(* C3: a reply-page fetch that fails with HttpError does not abort the run;
   when get_video_comments returns after such failures, every thread within
   the bound is in the result, a thread without failure with all its records,
   and a thread whose reply page p failed with its level-0 record, its inline
   replies and what the pages before p added, nothing of page p or later. *)
C3_HttpReplyFailureIsolated ==
    /\ (Aborted /\ failures # <<>>) =>
            \E i \in DOMAIN failures : i \notin HttpReplyFailures
    /\ (returned # <<>> /\ HttpReplyFailures # {}) =>
            \A t \in ResultThreads :
                ThreadRecords(returned[1], t)
                    = ThreadWithPages(t, PagesBeforeFailure(t))

C3_Witness ==
    /\ returned # <<>>
    /\ Len(video) = 3
    /\ video[1] = OverlapThread
    /\ video[2] = OverlapThread
    /\ video[3] = ScenarioAThread
    /\ Len(failures) = 1
    /\ failures[1].parentId = TopLevelId(2)
    /\ failures[1].error = "HttpError"
    /\ failures[1].page = 2
    /\ Len(returned[1]) = 14
    /\ Len(ThreadRecords(returned[1], 2)) = 4

(* C4: every reply-page failure, whatever the exception, is caught per parent,
   so that only a commentThreads failure makes get_video_comments exit. *)
C4_EveryReplyFailureRecoverable ==
    Aborted => ThreadFailures # {}

(* C5: no comment_id occurs twice in the list, the API repeating no id within
   the thread pages nor within the reply pages of one parent. *)
C5_CommentIdsUnique ==
    \A i, j \in DOMAIN comments :
        comments[i].comment_id = comments[j].comment_id => i = j

(* C6: in every state, each level-1 record has the comment_id of exactly one
   level-0 record as parent_id, that record standing earlier in the list, and
   each level-0 record has the empty parent_id. *)
C6_ParentIntegrity ==
    \A i \in DOMAIN comments :
        IF comments[i].level = 0
        THEN comments[i].parent_id = <<>>
        ELSE LET parents == {j \in DOMAIN comments :
                                /\ comments[j].level = 0
                                /\ comments[j].comment_id = comments[i].parent_id}
             IN  /\ Cardinality(parents) = 1
                 /\ \A j \in parents : j < i

C6_Witness ==
    /\ pc = "reply_next"
    /\ Len(response.items) >= 2
    /\ item_i = 2
    /\ comments[Len(comments)].level = 1
    /\ comments[Len(comments)].parent_id = TopLevelId(2)

-----------------------------------------------------------------------------
\* the reply pages served for thread t: one per comments request for it
ServedReplyPages(t) ==
    Cardinality({i \in DOMAIN requests :
                    requests[i].parentId = TopLevelId(t)})

RECURSIVE AllPages(_, _)
AllPages(pages, n) ==
    IF n = 0 THEN <<>> ELSE AllPages(pages, n - 1) \o pages[n]

\* the reference flattening of one thread: its level-0 record, its inline
\* replies, the paginated replies that are not in the inline snapshot
ReferenceThread(t) ==
    <<TopRecord(t)>>
    \o (IF video[t].has_replies THEN ReplyRecords(t, video[t].inline) ELSE <<>>)
    \o ReplyRecords(t,
          SkipExisting(AllPages(video[t].reply_pages, ServedReplyPages(t)),
                       Range(video[t].inline)))

RECURSIVE ReferenceFlattening(_)
ReferenceFlattening(n) ==
    IF n = 0 THEN <<>>
    ELSE ReferenceFlattening(n - 1) \o ReferenceThread(n)

(* C7: without a fetch failure the returned list is the reference flattening
   of the served pages: threads in page order, each with its level-0 record,
   its inline replies, then the paginated replies not in the inline
   snapshot, in page order. *)
C7_ResultIsReferenceFlattening ==
    (returned # <<>> /\ failures = <<>>) =>
        returned[1] = ReferenceFlattening(Min(max_results, Len(video)))

(* C8: every request asks for at most 100 items, and the first
   commentThreads request for exactly min(max_results, 100). *)
C8_RequestsWithinPageSizeCap ==
    /\ \A i \in DOMAIN requests : requests[i].maxResults <= PageSizeCap
    /\ requests # <<>> =>
           requests[1].maxResults = Min(max_results, PageSizeCap)

\* save_comments_to_csv was called and did not write the whole file
CsvWriteFailed == save_calls # <<>> /\ csv # "complete"

(* C9: the process ends with status 1 when a commentThreads fetch failed, when
   writing the CSV failed, or when no record was collected (no file is written
   then); every other run writes all the records and ends with status 0. *)
C9_ExitStatus ==
    exit_code # <<>> =>
        IF ThreadFailures # {} \/ CsvWriteFailed \/ comments = <<>>
        THEN /\ exit_code = <<1>>
             /\ comments = <<>> => csv = "none"
        ELSE /\ exit_code = <<0>>
             /\ csv = "complete"
             /\ save_calls = <<comments>>

(* C10: when a thread page is exhausted, the next step fetches a thread page
   exactly if the last response carries a token and fewer than max_results
   level-0 records are in the list, asking for
   min(max_results - level-0 count, 100) items with that token; otherwise the
   next step returns the list, with no further request. *)
C10_NextThreadPage ==
    [][pc = "page_done" =>
        IF /\ response.nextPageToken # NoToken
           /\ Level0Count(comments) < max_results
        THEN requests' = Append(requests,
                 [api |-> "commentThreads",
                  maxResults |-> Min(max_results - Level0Count(comments),
                                     PageSizeCap),
                  pageToken |-> response.nextPageToken,
                  parentId |-> <<>>])
        ELSE /\ requests' = requests
             /\ returned' = <<comments>>
             /\ pc' = "main"]_vars

C10_Witness ==
    /\ returned # <<>>
    /\ response.nextPageToken # NoToken
    /\ \E i \in 2..Len(requests) :
            /\ requests[i].api = "commentThreads"
            /\ requests[i].pageToken # NoToken
            /\ requests[i].maxResults < max_results

-----------------------------------------------------------------------------
\* the level-1 records of thread t in cs
Level1Records(cs, t) ==
    SelectSeq(cs, LAMBDA r : r.level = 1 /\ r.parent_id = TopLevelId(t))

\* the inline replies emitted for thread t: none without a snapshot
InlineEmitted(t) == IF video[t].has_replies THEN Len(video[t].inline) ELSE 0

\* the parent of a comments request
RequestThread(r) == r.parentId[1]

ReplyRequests == {i \in DOMAIN requests : requests[i].api = "comments"}

(* C11: when get_video_comments returns without any failure, every thread of
   the result whose totalReplyCount exceeds the number of inline replies
   emitted for it (zero without a snapshot) had its reply pages fetched and
   has totalReplyCount level-1 records. *)
C11_MoreRepliesAreFetched ==
    (returned # <<>> /\ failures = <<>>) =>
        \A t \in ResultThreads :
            video[t].totalReplyCount > InlineEmitted(t) =>
                /\ ServedReplyPages(t) >= 1
                /\ Len(Level1Records(returned[1], t)) = video[t].totalReplyCount

(* C12: every comments request is for a thread whose totalReplyCount exceeds
   the number of its inline replies; a thread with no inline reply and
   totalReplyCount 0 gets none. *)
C12_NoFetchWithoutMoreReplies ==
    [](\A i \in ReplyRequests :
          LET t == RequestThread(requests[i])
          IN  video[t].totalReplyCount > Len(video[t].inline))

C12_Witness ==
    /\ returned # <<>>
    /\ Len(video) = 3
    /\ video[1] = CompleteThread
    /\ video[2] = PlainThread
    /\ video[3] = ScenarioAThread
    /\ Level0Count(returned[1]) = 3
    /\ ReplyRequests # {}
    /\ \A i \in ReplyRequests : RequestThread(requests[i]) = 3

-----------------------------------------------------------------------------
\* the failures that did not end the run: HttpError of a comments request
CaughtFailures == HttpReplyFailures

\* the request a step adds to the log
NewRequest == requests'[Len(requests')]

(* C13: no request is retried.  A step adds at most one request; none is
   added once a commentThreads request or an uncaught request has failed; a
   comments request for a parent comes only while no comments request for
   that parent has failed, asks for the next page of the parent's chain (the
   first page without token, then the token of the page before) and never
   goes past the page without token; a commentThreads request carries the
   token of the last response.  When get_video_comments returns, the chain of
   every parent that was asked for and did not fail was followed to its end. *)
C13_NoRetry ==
    /\ [][requests' # requests =>
            /\ requests' = Append(requests, NewRequest)
            /\ \A i \in DOMAIN failures : i \in CaughtFailures
            /\ NewRequest.api = "commentThreads" =>
                   NewRequest.pageToken =
                       IF requests = <<>> THEN NoToken
                       ELSE response.nextPageToken
            /\ NewRequest.api = "comments" =>
                   LET t == RequestThread(NewRequest)
                       n == ServedReplyPages(t)
                   IN  /\ \A i \in ReplyFailures :
                              failures[i].parentId # NewRequest.parentId
                       /\ n < Len(video[t].reply_pages)
                       /\ NewRequest.pageToken =
                              IF n = 0 THEN NoToken ELSE <<n + 1>>]_vars
    /\ [](returned # <<>> =>
            \A i \in ReplyRequests :
                LET t == RequestThread(requests[i])
                IN  \/ \E j \in ReplyFailures :
                            failures[j].parentId = TopLevelId(t)
                    \/ ServedReplyPages(t) = Len(video[t].reply_pages))

C13_Witness ==
    /\ pc = "exit"
    /\ Len(failures) = 2
    /\ failures[1].api = "comments"
    /\ failures[1].page = 2
    /\ failures[1].parentId = TopLevelId(1)
    /\ failures[2].api = "commentThreads"
    /\ ServedReplyPages(1) = 2
    /\ ServedReplyPages(2) = 2
    /\ Len(requests) = 7

-----------------------------------------------------------------------------
\* cs is a prefix of ds
IsPrefix(cs, ds) ==
    /\ Len(cs) <= Len(ds)
    /\ SubSeq(ds, 1, Len(cs)) = cs

(* C14: the list only grows at its end: every step leaves the records it held
   in place and unchanged, a failed reply fetch included; and
   save_comments_to_csv is called at most once, after get_video_comments
   returned, with the whole list. *)
C14_AppendOnly ==
    [][/\ IsPrefix(comments, comments')
       /\ save_calls' # save_calls =>
            /\ save_calls = <<>>
            /\ returned = <<comments>>
            /\ save_calls' = <<comments>>]_vars

C14_Witness ==
    /\ save_calls # <<>>
    /\ HttpReplyFailures # {}
    /\ \E i \in HttpReplyFailures : failures[i].page = 2
    /\ Len(save_calls[1]) > Level0Count(save_calls[1])
    /\ Level0Count(save_calls[1]) = 3

-----------------------------------------------------------------------------
(* C15: max_results bounds the level-0 records only.  When
   get_video_comments returns without failure, every thread of the result,
   the one that reaches the bound included, has the records its item and its
   reply pages give, whatever max_results is; the list may be longer than
   max_results. *)
C15_BoundLeavesReplies ==
    []((returned # <<>> /\ failures = <<>>) =>
          \A t \in 1..Level0Count(returned[1]) :
              ThreadRecords(returned[1], t)
                  = ThreadWithPages(t, AllReplyPages(t)))

C15_Witness ==
    /\ returned # <<>>
    /\ failures = <<>>
    /\ max_results = 2
    /\ Len(video) = 3
    /\ video[1] = ScenarioAThread
    /\ video[2] = OverlapThread
    /\ Level0Count(returned[1]) = 2
    /\ Len(returned[1]) = 10

-----------------------------------------------------------------------------
\* get_video_comments has returned or the process has ended
Terminated == returned # <<>> \/ exit_code # <<>>

\* the threads the API has not served yet, as far as the program can still
\* ask for them
Unserved ==
    IF pc = "start" THEN Len(video)
    ELSE IF response.nextPageToken # NoToken
         THEN Len(video) - response.nextPageToken[1]
         ELSE 0

\* what is left of the thread pages, of the current page, of the current
\* item and of the program after the traversal
ThreadPagesLeft ==
    (Unserved + emptyLeft) + (Unserved + emptyLeft)
    + (IF pc = "start" \/ response.nextPageToken # NoToken THEN 1 ELSE 0)

ItemsLeft == Max(0, Len(response.items) - item_i + 1)

ItemStepsLeft ==
    CASE pc = "top"         -> Len(CurrentItem.reply_pages) + 3
      [] pc = "inline"      -> Len(CurrentItem.reply_pages) + 2
      [] pc = "reply_first" -> Len(CurrentItem.reply_pages) + 1
      [] pc = "reply_next"  -> Len(CurrentItem.reply_pages) + 2
                                   - replies_response.nextPageToken[1]
      [] OTHER              -> 0

EndStepsLeft ==
    CASE pc = "exit" -> 0
      [] pc = "main" -> 1
      [] OTHER       -> 2

\* the tuple <<ThreadPagesLeft, ItemsLeft, ItemStepsLeft, EndStepsLeft>> is
\* lower after the step than before it, in lexicographic order
VariantDecreases ==
    \/ ThreadPagesLeft' < ThreadPagesLeft
    \/ /\ ThreadPagesLeft' = ThreadPagesLeft
       /\ ItemsLeft' < ItemsLeft
    \/ /\ ThreadPagesLeft' = ThreadPagesLeft
       /\ ItemsLeft' = ItemsLeft
       /\ ItemStepsLeft' < ItemStepsLeft
    \/ /\ ThreadPagesLeft' = ThreadPagesLeft
       /\ ItemsLeft' = ItemsLeft
       /\ ItemStepsLeft' = ItemStepsLeft
       /\ EndStepsLeft' < EndStepsLeft

VariantIsNatural ==
    /\ ThreadPagesLeft >= 0
    /\ ItemsLeft >= 0
    /\ ItemStepsLeft >= 0
    /\ EndStepsLeft >= 0

(* C16: get_video_comments terminates.  Every step of the function strictly
   lowers, in lexicographic order, a tuple of natural numbers (thread pages
   left, items left on the page, steps left on the item, steps left after the
   traversal), wherever a fetch fails and also over pages that carry a token
   and no item; and as long as it has neither returned nor exited, the
   function can take a step. *)
C16_Terminates ==
    /\ [][VariantDecreases]_vars
    /\ [](VariantIsNatural)
    /\ [](~Terminated => ENABLED GetVideoCommentsNext)

C16_Witness ==
    /\ returned # <<>>
    /\ HttpReplyFailures # {}
    /\ Level0Count(returned[1]) >= 2
    /\ \E i \in DOMAIN requests :
            /\ requests[i].api = "commentThreads"
            /\ requests[i].pageToken = <<0>>

-----------------------------------------------------------------------------
ThreadRequests == {i \in DOMAIN requests : requests[i].api = "commentThreads"}

\* the threads served so far, once the last page was answered
ServedThreads ==
    IF response.items # <<>> THEN response.items[Len(response.items)]
    ELSE IF response.nextPageToken # NoToken THEN response.nextPageToken[1]
    ELSE Len(video)

\* where the page asked for by request i starts and ends
PageStart(i) ==
    IF requests[i].pageToken = NoToken THEN 0 ELSE requests[i].pageToken[1]
PageEnd(i) ==
    IF \E j \in ThreadRequests : j > i
    THEN PageStart(CHOOSE j \in ThreadRequests :
                       j > i /\ \A k \in ThreadRequests : k > i => j <= k)
    ELSE ServedThreads

\* the answer to request i held more items than it asked for
Overserved(i) == PageEnd(i) - PageStart(i) > requests[i].maxResults

InPage == pc \in {"top", "inline", "reply_first", "reply_next"}

(* C17: the bound is looked at between thread pages only.  Within a page the
   loop ends after the last item alone and get_video_comments returns from
   between pages alone; when a page is done, each thread served so far has
   exactly one level-0 record, whatever max_results is; so the list that
   get_video_comments returns holds more than max_results level-0 records
   exactly when some page held more items than its request asked for. *)
C17_BoundBetweenPagesOnly ==
    /\ [][/\ (InPage /\ pc' = "page_done") => item_i = Len(response.items)
          /\ returned' # returned => pc = "page_done"]_vars
    /\ [](pc = "page_done" =>
            /\ Level0Count(comments) = ServedThreads
            /\ \A t \in 1..ServedThreads :
                  Cardinality({i \in DOMAIN comments :
                                  comments[i] = TopRecord(t)}) = 1)
    /\ [](pc = "main" =>
            (Level0Count(returned[1]) > max_results
                <=> \E i \in ThreadRequests : Overserved(i)))

C17_Witness ==
    /\ pc = "main"
    /\ max_results = 2
    /\ Level0Count(returned[1]) = 3
    /\ Cardinality(ThreadRequests) = 2

====
